---- MODULE Spec2Model ----
(***************************************************************************)
(* State-machine model of four parts of the node's local object storage:  *)
(*   - StorageEngine.Inhume (engine/inhume.go): the cross-shard inhume     *)
(*     loop with its presence probe and its retry pass;                    *)
(*   - the shard's GC event listener (gc.listenEvents);                    *)
(*   - the shard's GC handler collectExpiredObjects and its physical       *)
(*     remover (gc.tickRemover, removeGarbage);                            *)
(*   - the write-cache flush pipeline (flushDB, flushWorker,               *)
(*     flushBigObjects, Flush).                                            *)
(* Each part has its own specification (SpecInhume, SpecGC, SpecShard,     *)
(* SpecWC); the variables of the other parts stay at their initial values. *)
(***************************************************************************)
EXTENDS Integers, Sequences, FiniteSets, TLC

VARIABLES
    \* ---- StorageEngine.Inhume ----
    blocked,      \* e.execIfNotBlocked: executions are blocked
    naddrs,       \* len(prm.addrs)
    intent,       \* "target" (WithTarget), "garbage" (MarkAsGarbage), "force" (WithForceRemoval)
    ipc,          \* position of the call: "start", "shard", "switch", "done"
    ai,           \* i, index of the address being processed
    checkExists,  \* third argument of the running inhumeAddr
    sj,           \* index (in priority order) of the shard the callback runs on next
    status,       \* inhumeAddr's named result
    root,         \* inhumeAddr's local flag
    trace,        \* history: Exists/Inhume calls issued for address ai
    ended,        \* history: result of every inhumeAddr call that returned
    lockedSeen,   \* history: some shard's Inhume returned ObjectLocked in this call
    ires,         \* result of Inhume: "none" while running
    \* ---- gc.listenEvents ----
    gpc,          \* position of the listener: "recv", "wait", "submit", "stopped"
    nevents,      \* events received from eventChan so far
    batch,        \* number of handler batches started (scopes created)
    ctxDone,      \* the scope of batch `batch` is cancelled (v.cancelFunc called)
    prevGroup,    \* counter of v.prevGroup
    hi,           \* index of the next handler to submit
    h,            \* the loop variable h of `for _, h := range v.handlers`
    tasks,        \* accepted submissions not yet returned: [b, i, st]
    aliveAtCancel, \* history: tasks alive when v.cancelFunc was last called
    invoked,      \* history: per handler, the calls h(ctx, event) made in this batch
    rejected,     \* history: the submissions of this batch the pool rejected
    \* ---- write-cache flush pipeline ----
    quality,      \* per cache entry: "good", or why reading or decoding it fails
    compressFlags,\* c.compressFlags: addresses compressed on ingest
    readOnly,     \* c.mode.ReadOnly()
    closed,       \* c.closeCh is closed
    flushed,      \* c.flushed: the addresses in the FlushedSet
    blob,         \* addresses stored by a successful blobstor.Put
    index,        \* addresses recorded by a successful metabase.Put
    fpc,          \* small-object flush loop: "timer", "loop", "send", "exited"
    m,            \* flushDB's batch m, as keys of the keyed store
    fi,           \* flushDB's index i into m
    wpc,          \* per flush worker: "recv", "flush", "exited"
    obj,          \* per flush worker: the object received from c.flushCh
    epc,          \* big-object eviction loop: "timer", "iter", "exited"
    epos,         \* position of c.fsTree.Iterate inside flushBigObjects
    dpc,          \* Flush: "idle", "run", "done"
    dpos,         \* position of the drain in DrainOrder
    ignoreErrors, \* argument of the running (or last) Flush
    dres,         \* error returned by Flush: [kind, e]
    dCalledRO,    \* history: the mode was read-only when Flush was called
    drainPut, \* history: entries the running (or last) Flush called flushObject on
    rewritten,    \* history: a durably written object was written again
    rebatched,    \* history: a durably written object entered a later flush batch
    tickRead,     \* history: keys read into the earlier batches of the running flushDB call
    \* ---- shard GC: collectExpiredObjects, tickRemover, removeGarbage ----
    expiry,       \* per address: type of the object the Index holds as expired, or "none"
    stored,       \* addresses of the objects the shard holds
    graveyard,    \* per address: "none", or the grave's mark: "gc" or "tomb"
    cpc,          \* collectExpiredObjects: "idle", "iter", "check", "inhume", "done"
    ctx,          \* ctx.Done() of the handler's scope is closed
    cpos,         \* position of metaBase.IterateExpired
    expired,      \* the slice expired of collectExpiredObjects
    enumerated,   \* history: addresses IterateExpired passed to the callback in this run
    inhumeCalls,  \* history: arguments of metaBase.Inhume in this run
    cancelledAt,  \* history: where the run was when its scope was cancelled
    rpc,          \* tickRemover: "timer", "remove", "exited"
    shutdown,     \* the shard's shutdown signal is raised
    lastDelete,   \* history: what the last removeGarbage saw and passed to Delete
    \* ---- uniqueIDWriter ----
    written,      \* w.written: the keys of the map
    mtx,          \* w.mtx: the call that holds it, 0 when free
    arg,          \* per WriteIDs call: the list it was called with
    list,         \* per WriteIDs call: its slice list
    upc,          \* per WriteIDs call: "call", "locked", "unlocked", "done"
    lockOrder,    \* history: the calls in the order they acquired w.mtx
    fwd           \* history: per call, the list passed to w.writer.WriteIDs

inhVars == <<blocked, naddrs, intent, ipc, ai, checkExists, sj, status, root,
             trace, ended, lockedSeen, ires>>

gcVars == <<gpc, nevents, batch, ctxDone, prevGroup, hi, h, tasks, aliveAtCancel,
           invoked, rejected>>

wcVars == <<quality, compressFlags, readOnly, closed, flushed, blob, index,
            fpc, m, fi, wpc, obj, epc, epos,
            dpc, dpos, ignoreErrors, dres, dCalledRO, drainPut,
            rewritten, rebatched, tickRead>>

shVars == <<expiry, stored, graveyard, cpc, ctx, cpos, expired, enumerated,
            inhumeCalls, cancelledAt, rpc, shutdown, lastDelete>>

idwVars == <<written, mtx, arg, list, upc, lockOrder, fwd>>

vars == <<inhVars, gcVars, wcVars, shVars, idwVars>>

(***************************************************************************)
(* Bounds                                                                  *)
(***************************************************************************)
MaxAddrs == 2
NShards == 2
MaxEvents == 3
NHandlers == 2
\* Entries of the keyed store and of the file tree, flush workers
\* (c.workersCount), and the batch size standing for flushBatchSize.
NSmall == 2
NBig == 1
NWorkers == 1
FlushBatchSize == 1
\* Cache entries whose stored bytes or key are damaged.
MaxDamaged == 1
\* Addresses known to the shard's Index, and s.rmBatchSize.
NObjects == 3
RmBatchSize == 2
\* WriteIDs calls on one uniqueIDWriter, distinct object IDs, and the
\* longest list passed to a call.
NCalls == 2
NIDs == 2
MaxList == 2

(***************************************************************************)
(* The parts at rest                                                       *)
(***************************************************************************)
\* No Inhume call is in progress.
ParkedInhume ==
    /\ blocked = FALSE
    /\ naddrs = 0
    /\ intent = "garbage"
    /\ ipc = "start"
    /\ ai = 0
    /\ checkExists = TRUE
    /\ sj = 0
    /\ status = 0
    /\ root = FALSE
    /\ trace = <<>>
    /\ ended = <<>>
    /\ lockedSeen = FALSE
    /\ ires = "none"

\* The keyed store and the file tree, as entries: keys 1..NSmall of the
\* keyed store in cursor order, then the entries of the file tree.
Small == 1..NSmall
Big == (NSmall + 1)..(NSmall + NBig)
Entries == Small \cup Big
Workers == 1..NWorkers

NoError == [kind |-> "none", e |-> 0]

\* A write-cache with intact content, no loop started and no Flush called.
ParkedWC ==
    /\ quality = [e \in Entries |-> "good"]
    /\ compressFlags = {}
    /\ readOnly = FALSE
    /\ closed = FALSE
    /\ flushed = {}
    /\ blob = {}
    /\ index = {}
    /\ fpc = "timer"
    /\ m = <<>>
    /\ fi = 0
    /\ wpc = [w \in Workers |-> "recv"]
    /\ obj = [w \in Workers |-> 0]
    /\ epc = "timer"
    /\ epos = 0
    /\ dpc = "idle"
    /\ dpos = 0
    /\ ignoreErrors = FALSE
    /\ dres = NoError
    /\ dCalledRO = FALSE
    /\ drainPut = {}
    /\ rewritten = FALSE
    /\ rebatched = FALSE
    /\ tickRead = {}

(***************************************************************************)
(* gc.listenEvents at rest                                                 *)
(***************************************************************************)
\* The listener before its first receive; no event was handled yet, so the
\* scope in v.cancelFunc has no handler bound to it.
ParkedGC ==
    /\ gpc = "recv"
    /\ nevents = 0
    /\ batch = 0
    /\ ctxDone = FALSE
    /\ prevGroup = 0
    /\ hi = 0
    /\ h = 0
    /\ tasks = {}
    /\ aliveAtCancel = 0
    /\ invoked = [i \in 1..NHandlers |-> 0]
    /\ rejected = {}

(***************************************************************************)
(* The shard's GC handlers at rest                                         *)
(***************************************************************************)
Addrs == 1..NObjects

NotCancelled == [pc |-> "none", len |-> 0]
NoDelete == [ran |-> FALSE, iterErr |-> FALSE, gc |-> {}, tomb |-> {},
             called |-> FALSE, addrs |-> {}]

\* An Index without expired objects and graves; no handler run, no tick.
ParkedShard ==
    /\ expiry = [a \in Addrs |-> "none"]
    /\ stored = Addrs
    /\ graveyard = [a \in Addrs |-> "none"]
    /\ cpc = "idle"
    /\ ctx = FALSE
    /\ cpos = 0
    /\ expired = <<>>
    /\ enumerated = <<>>
    /\ inhumeCalls = <<>>
    /\ cancelledAt = NotCancelled
    /\ rpc = "timer"
    /\ shutdown = FALSE
    /\ lastDelete = NoDelete

(***************************************************************************)
(* uniqueIDWriter at rest                                                  *)
(***************************************************************************)
Calls == 1..NCalls
IDs == 1..NIDs

\* newUniqueAddressWriter: nothing written; every call is still to come and
\* passes the empty list.
ParkedIDW ==
    /\ written = {}
    /\ mtx = 0
    /\ arg = [c \in Calls |-> <<>>]
    /\ list = [c \in Calls |-> <<>>]
    /\ upc = [c \in Calls |-> "call"]
    /\ lockOrder = <<>>
    /\ fwd = [c \in Calls |-> <<>>]

(***************************************************************************)
(* StorageEngine.Inhume                                                    *)
(***************************************************************************)
Intents == {"target", "garbage", "force"}

\* Outcomes of shard.Exists as inhumeAddr distinguishes them.
ExistsOutcomes == {"absent", "present", "removed", "expired", "split", "error"}

\* Outcomes of shard.Inhume as inhumeAddr distinguishes them.  A forced
\* inhume checks no restriction, so it reports neither lock error.
ShardInhumeOutcomes(in) ==
    IF in = "force" THEN {"ok", "error"}
    ELSE {"ok", "locked", "lockRemoval", "error"}

\* The part of the callback before sh.Inhume: what the presence probe
\* decides.  inhume |-> TRUE when control reaches sh.Inhume.
ProbeStep(st, rt, probe) ==
    CASE probe \in {"removed", "expired"} ->
            [status |-> 3, root |-> rt, stop |-> TRUE, inhume |-> FALSE]
      [] probe = "error" ->
            [status |-> st, root |-> rt, stop |-> FALSE, inhume |-> FALSE]
      [] probe = "split" ->
            [status |-> st, root |-> TRUE, stop |-> FALSE, inhume |-> TRUE]
      [] probe = "absent" ->
            [status |-> st, root |-> rt, stop |-> FALSE, inhume |-> FALSE]
      [] OTHER ->
            [status |-> st, root |-> rt, stop |-> FALSE, inhume |-> TRUE]

\* The part of the callback from sh.Inhume on.
InhumeStepGoesOn(st, out) ==
    CASE out = "locked" -> [status |-> 1, stop |-> TRUE]
      [] out = "lockRemoval" -> [status |-> 2, stop |-> TRUE]
      [] out = "error" -> [status |-> st, stop |-> FALSE]
      [] OTHER -> [status |-> 3, stop |-> FALSE]
InhumeStep(st, out) ==
    CASE out = "locked" -> [status |-> 1, stop |-> TRUE]
      [] out = "lockRemoval" -> [status |-> 2, stop |-> TRUE]
      [] out = "error" -> [status |-> st, stop |-> FALSE]
      [] OTHER -> [status |-> 3, stop |-> TRUE]

\* The deferred function of the callback: a root object never stops the
\* iteration of a pass that probes.
DeferStopNoOverride(ce, rt, stop) == stop
DeferStopAlways(ce, rt, stop) == IF ce THEN FALSE ELSE stop
DeferStop(ce, rt, stop) == IF ce /\ rt THEN FALSE ELSE stop

\* What e.inhume does with the status of the pass that just returned:
\* "locked", "lockRemoval", "fail" return that error, "retry" runs the pass
\* without the probe, "next" goes on to the next address.
Switch(ce, st) ==
    CASE ce /\ st = 2 -> "lockRemoval"
      [] ce /\ st = 1 -> "locked"
      [] ce /\ st = 0 -> "retry"
      [] ~ce /\ st = 1 -> "locked"
      [] ~ce /\ st = 0 -> "fail"
      [] OTHER -> "next"

Op(kind, out) == [op |-> kind, a |-> ai, ce |-> checkExists, sh |-> sj, out |-> out]

InitInhume ==
    /\ blocked \in BOOLEAN
    /\ naddrs \in 0..MaxAddrs
    /\ intent \in Intents
    /\ ipc = "start"
    /\ ai = 0
    /\ checkExists = TRUE
    /\ sj = 0
    /\ status = 0
    /\ root = FALSE
    /\ trace = <<>>
    /\ ended = <<>>
    /\ lockedSeen = FALSE
    /\ ires = "none"
    /\ ParkedGC
    /\ ParkedWC
    /\ ParkedShard
    /\ ParkedIDW

\* Inhume and the entry of e.inhume up to the first inhumeAddr call.
Inhume ==
    /\ ipc = "start"
    /\ IF blocked
         THEN /\ ipc' = "done" /\ ires' = "blocked"
              /\ UNCHANGED <<ai, sj>>
         ELSE IF naddrs = 0
                THEN /\ ipc' = "done" /\ ires' = "ok"
                     /\ UNCHANGED <<ai, sj>>
                ELSE /\ ipc' = "shard" /\ ires' = "none"
                     /\ ai' = 1 /\ sj' = 1
    /\ checkExists' = TRUE
    /\ status' = 0
    /\ root' = FALSE
    /\ UNCHANGED <<blocked, naddrs, intent, trace, ended, lockedSeen>>
    /\ UNCHANGED <<gcVars, wcVars, shVars, idwVars>>

\* The iteration of iterateOverSortedShards after one run of the callback.
AfterCallback(stop) ==
    IF stop \/ sj = NShards
      THEN /\ ipc' = "switch" /\ sj' = sj
      ELSE /\ ipc' = "shard" /\ sj' = sj + 1

\* One run of inhumeAddr's callback on shard sj, ending before sh.Inhume.
CallbackProbeOnly ==
    /\ ipc = "shard"
    /\ checkExists
    /\ \E probe \in ExistsOutcomes :
         LET p == ProbeStep(status, root, probe) IN
           /\ ~p.inhume
           /\ status' = p.status
           /\ root' = p.root
           /\ trace' = Append(trace, Op("probe", probe))
           /\ AfterCallback(DeferStop(checkExists, p.root, p.stop))
    /\ UNCHANGED <<blocked, naddrs, intent, ai, checkExists, ended, lockedSeen, ires>>
    /\ UNCHANGED <<gcVars, wcVars, shVars, idwVars>>

\* One run of the callback that probes and reaches sh.Inhume.
CallbackProbeInhume ==
    /\ ipc = "shard"
    /\ checkExists
    /\ \E probe \in ExistsOutcomes, out \in ShardInhumeOutcomes(intent) :
         LET p == ProbeStep(status, root, probe)
             r == InhumeStep(p.status, out) IN
           /\ p.inhume
           /\ status' = r.status
           /\ root' = p.root
           /\ trace' = trace \o <<Op("probe", probe), Op("inhume", out)>>
           /\ lockedSeen' = (lockedSeen \/ out = "locked")
           /\ AfterCallback(DeferStop(checkExists, p.root, r.stop))
    /\ UNCHANGED <<blocked, naddrs, intent, ai, checkExists, ended, ires>>
    /\ UNCHANGED <<gcVars, wcVars, shVars, idwVars>>

\* One run of the callback in the pass without the probe.
CallbackInhume ==
    /\ ipc = "shard"
    /\ ~checkExists
    /\ \E out \in ShardInhumeOutcomes(intent) :
         LET r == InhumeStep(status, out) IN
           /\ status' = r.status
           /\ trace' = Append(trace, Op("inhume", out))
           /\ lockedSeen' = (lockedSeen \/ out = "locked")
           /\ AfterCallback(DeferStop(checkExists, root, r.stop))
    /\ UNCHANGED <<blocked, naddrs, intent, ai, checkExists, root, ended, ires>>
    /\ UNCHANGED <<gcVars, wcVars, shVars, idwVars>>

\* inhumeAddr returned: the switch statements of e.inhume and the loop
\* over prm.addrs.
InhumeSwitch ==
    /\ ipc = "switch"
    /\ ended' = Append(ended, [a |-> ai, ce |-> checkExists, status |-> status])
    /\ LET d == Switch(checkExists, status) IN
         CASE d \in {"locked", "lockRemoval", "fail"} ->
                /\ ipc' = "done" /\ ires' = d
                /\ UNCHANGED <<ai, checkExists, sj, status, root, trace>>
           [] d = "retry" ->
                /\ ipc' = "shard" /\ checkExists' = FALSE
                /\ sj' = 1 /\ status' = 0 /\ root' = FALSE
                /\ UNCHANGED <<ai, trace, ires>>
           [] OTHER ->
                IF ai = naddrs
                  THEN /\ ipc' = "done" /\ ires' = "ok"
                       /\ UNCHANGED <<ai, checkExists, sj, status, root, trace>>
                  ELSE /\ ipc' = "shard" /\ ai' = ai + 1
                       /\ checkExists' = TRUE
                       /\ sj' = 1 /\ status' = 0 /\ root' = FALSE
                       /\ trace' = <<>>
                       /\ UNCHANGED ires
    /\ UNCHANGED <<blocked, naddrs, intent, lockedSeen>>
    /\ UNCHANGED <<gcVars, wcVars, shVars, idwVars>>

NextInhume ==
    \/ Inhume
    \/ CallbackProbeOnly
    \/ CallbackProbeInhume
    \/ CallbackInhume
    \/ InhumeSwitch

SpecInhume == InitInhume /\ [][NextInhume]_vars

(***************************************************************************)
(* Properties of StorageEngine.Inhume                                      *)
(***************************************************************************)
Probes(ce) == {k \in DOMAIN trace : trace[k].op = "probe" /\ trace[k].ce = ce}
Inhumes(ce) == {k \in DOMAIN trace : trace[k].op = "inhume" /\ trace[k].ce = ce}

\* C1: a call without force-removal in which some shard's Inhume reported
\* object-locked returns the object-locked failure, never success.
C1_LockedNeverSucceeds ==
    (ipc = "done" /\ intent # "force" /\ lockedSeen) => ires = "locked"

\* An inhumeAddr result that must end the call, and the failure it maps to.
EndsBad(e) == e.status \in {1, 2} \/ (~e.ce /\ e.status = 0)
FailureOf(e) ==
    CASE e.status = 1 -> "locked"
      [] e.status = 2 -> "lockRemoval"
      [] OTHER -> "fail"

\* C5: the call returns at the first address whose pass (with the probe, or
\* the retry without it) ends in object-locked, lock-object-removal or no
\* success, with the matching failure and no call for a later address; it
\* returns success only if every address ended in status ok.
C5_AbortAtFirstFailure ==
    /\ \A k \in DOMAIN ended :
         EndsBad(ended[k]) =>
           /\ ipc = "done"
           /\ ires = FailureOf(ended[k])
           /\ k = Len(ended)
           /\ ai = ended[k].a
           /\ \A t \in DOMAIN trace : trace[t].a = ended[k].a
    /\ (ipc = "done" /\ ires = "ok") =>
         \A a \in 1..naddrs :
           \E k \in DOMAIN ended : ended[k].a = a /\ ended[k].status = 3

\* C6: when the first shard probed for an address reports it removed or
\* expired, that probe is the only call made for the address, and the
\* address is settled with success.
C6_RemovedAtFirstShard ==
    (/\ Len(trace) >= 1
     /\ trace[1].op = "probe"
     /\ trace[1].out \in {"removed", "expired"})
    => /\ Len(trace) = 1
       /\ status = 3
       /\ ipc = "switch" \/ (ipc = "done" /\ ires = "ok")

C6_Witness ==
    /\ ipc = "done" /\ ires = "ok" /\ naddrs = 1
    /\ Len(trace) = 1
    /\ trace[1].op = "probe" /\ trace[1].out = "expired"

\* The pass with the presence probe for address ai has returned.
FirstPassOver == ai >= 1 /\ (ipc \in {"switch", "done"} \/ ~checkExists)

\* C7: after a split-info probe result on a shard, every later shard is
\* probed, and Inhume is invoked on each later shard whose probe confirms
\* presence, whatever the Inhume of the split shard returned.
C7_SplitDoesNotStop ==
    FirstPassOver =>
      \A k \in Probes(TRUE) :
        trace[k].out = "split" =>
          \A s \in (trace[k].sh + 1)..NShards :
            \E pr \in Probes(TRUE) :
              /\ trace[pr].sh = s
              /\ trace[pr].out = "present" =>
                   \E q \in Inhumes(TRUE) : trace[q].sh = s

C7_Witness ==
    /\ FirstPassOver
    /\ \E k \in Probes(TRUE), q \in Inhumes(TRUE), pr \in Probes(TRUE), n \in Inhumes(TRUE) :
         /\ trace[k].sh = 1 /\ trace[k].out = "split"
         /\ trace[q].sh = 1 /\ trace[q].out = "ok"
         /\ trace[pr].sh = 2 /\ trace[pr].out = "present"
         /\ trace[n].sh = 2

\* The pass without the presence probe for address ai has returned.
RetryOver == ai >= 1 /\ ~checkExists /\ ipc \in {"switch", "done"}

\* Calls of the pass with the probe recorded for address ai.
FirstPassLen == Cardinality({k \in DOMAIN trace : trace[k].ce})

\* C13: an address whose pass with the probe returned status 0 gets exactly
\* one more pass; that pass issues no probe, invokes Inhume on the shards in
\* priority order, stops at the first Inhume that succeeds or reports
\* locked or lock-object-removal, visits every shard otherwise, and the call
\* returns the generic inhume failure only if no Inhume of it succeeded.
C13_RetryPass ==
    /\ Probes(FALSE) = {}
    /\ \A k \in Inhumes(FALSE) :
         /\ trace[k].sh = k - FirstPassLen
         /\ trace[k].out \in {"ok", "locked", "lockRemoval"} => k = Len(trace)
    /\ \A k \in DOMAIN ended :
         /\ (ended[k].ce /\ ended[k].status = 0) =>
               IF k = Len(ended)
                 THEN ~checkExists /\ ai = ended[k].a /\ ipc \in {"shard", "switch"}
                 ELSE ~ended[k + 1].ce /\ ended[k + 1].a = ended[k].a
         /\ ~ended[k].ce =>
               /\ k > 1
               /\ ended[k - 1].ce /\ ended[k - 1].status = 0
               /\ ended[k - 1].a = ended[k].a
    /\ RetryOver =>
         \/ Len(trace) - FirstPassLen = NShards
         \/ /\ Len(trace) > FirstPassLen
            /\ trace[Len(trace)].out \in {"ok", "locked", "lockRemoval"}
    /\ (ipc = "done" /\ ires = "fail") =>
         /\ RetryOver
         /\ \A k \in Inhumes(FALSE) : trace[k].out # "ok"

C13_Witness ==
    /\ RetryOver
    /\ ipc = "done" /\ ires = "ok"
    /\ \E k \in Inhumes(FALSE), q \in Inhumes(FALSE) :
         /\ trace[k].sh = 1 /\ trace[k].out = "error"
         /\ trace[q].sh = 2 /\ trace[q].out = "ok"

\* C14: a call with force-removal issues no presence probe: for each
\* address Inhume is invoked on the first shard in priority order, and no
\* probe outcome prevents or redirects it.
C14_ForceSkipsProbe ==
    intent = "force" =>
      /\ Probes(TRUE) = {} /\ Probes(FALSE) = {}
      /\ Len(trace) >= 1 => (trace[1].op = "inhume" /\ trace[1].sh = 1)

(***************************************************************************)
(* gc.listenEvents: actions                                                *)
(***************************************************************************)
EventKinds == {"eventNewEpoch", "unknown"}

\* v.prevGroup.Wait() returns.
WaitReturnsAtOnce == TRUE
WaitReturns == prevGroup = 0

\* A rejected submission calls v.prevGroup.Done() in the listener.
KeepsOnReject == FALSE
ReleasesOnReject == TRUE

InitGC ==
    /\ ParkedGC
    /\ ParkedInhume
    /\ ParkedWC
    /\ ParkedShard
    /\ ParkedIDW

\* event, ok := <-eventChan with ok, the handler lookup, and v.cancelFunc().
GCReceive ==
    /\ gpc = "recv"
    /\ nevents < MaxEvents
    /\ nevents' = nevents + 1
    /\ \E kind \in EventKinds :
         IF kind = "eventNewEpoch"
           THEN /\ gpc' = "wait"
                /\ ctxDone' = TRUE
                /\ aliveAtCancel' = Cardinality(tasks)
           ELSE UNCHANGED <<gpc, ctxDone, aliveAtCancel>>
    /\ UNCHANGED <<batch, prevGroup, hi, h, tasks, invoked, rejected>>
    /\ UNCHANGED <<inhVars, wcVars, shVars, idwVars>>

\* event, ok := <-eventChan with the channel closed.
GCChannelClosed ==
    /\ gpc = "recv"
    /\ gpc' = "stopped"
    /\ UNCHANGED <<nevents, batch, ctxDone, prevGroup, hi, h, tasks, aliveAtCancel,
                   invoked, rejected>>
    /\ UNCHANGED <<inhVars, wcVars, shVars, idwVars>>

\* v.prevGroup.Wait() returns; context.WithCancel and v.prevGroup.Add.
GCWait ==
    /\ gpc = "wait"
    /\ WaitReturns
    /\ batch' = batch + 1
    /\ ctxDone' = FALSE
    /\ prevGroup' = prevGroup + NHandlers
    /\ hi' = 1
    /\ h' = 0
    /\ invoked' = [i \in 1..NHandlers |-> 0]
    /\ rejected' = {}
    /\ gpc' = IF NHandlers = 0 THEN "recv" ELSE "submit"
    /\ UNCHANGED <<nevents, tasks, aliveAtCancel>>
    /\ UNCHANGED <<inhVars, wcVars, shVars, idwVars>>

\* One iteration of the range loop: h is assigned the handler hi, and
\* gc.workerPool.Submit of the function literal is accepted, or rejected with
\* v.prevGroup.Done().  The function literal holds ctx and event of this
\* batch and a reference to the loop variable h.
GCSubmit ==
    /\ gpc = "submit"
    /\ h' = hi
    /\ \E accepted \in BOOLEAN :
         IF accepted
           THEN /\ tasks' = tasks \cup {[b |-> batch, i |-> hi, st |-> "queued"]}
                /\ UNCHANGED <<prevGroup, rejected>>
           ELSE /\ prevGroup' = IF ReleasesOnReject THEN prevGroup - 1 ELSE prevGroup
                /\ rejected' = rejected \cup {hi}
                /\ UNCHANGED tasks
    /\ hi' = hi + 1
    /\ gpc' = IF hi = NHandlers THEN "recv" ELSE "submit"
    /\ UNCHANGED <<nevents, batch, ctxDone, aliveAtCancel, invoked>>
    /\ UNCHANGED <<inhVars, wcVars, shVars, idwVars>>

\* A pool worker starts a submitted function: it reads the loop variable h
\* and calls that handler with the ctx and event of its batch.
TaskStart ==
    /\ \E t \in tasks :
         /\ t.st = "queued"
         /\ tasks' = (tasks \ {t}) \cup {[t EXCEPT !.st = "running"]}
         /\ invoked' = [invoked EXCEPT ![h] = @ + 1]
    /\ UNCHANGED <<gpc, nevents, batch, ctxDone, prevGroup, hi, h, aliveAtCancel,
                   rejected>>
    /\ UNCHANGED <<inhVars, wcVars, shVars, idwVars>>

\* h(ctx, event) returns and the submitted function calls v.prevGroup.Done().
TaskReturn ==
    /\ \E t \in tasks :
         /\ t.st = "running"
         /\ tasks' = tasks \ {t}
    /\ prevGroup' = prevGroup - 1
    /\ UNCHANGED <<gpc, nevents, batch, ctxDone, hi, h, aliveAtCancel,
                   invoked, rejected>>
    /\ UNCHANGED <<inhVars, wcVars, shVars, idwVars>>

NextGC ==
    \/ GCReceive
    \/ GCChannelClosed
    \/ GCWait
    \/ GCSubmit
    \/ TaskStart
    \/ TaskReturn

SpecGC == InitGC /\ [][NextGC]_vars

\* The worker pool runs every accepted function, a handler returns once its
\* scope is cancelled, and the listener is never suspended for ever.
TaskReturnCancelled == ctxDone /\ TaskReturn

FairSpecGC ==
    /\ SpecGC
    /\ WF_vars(GCWait)
    /\ WF_vars(GCSubmit)
    /\ WF_vars(TaskStart)
    /\ WF_vars(TaskReturnCancelled)

\* C4: handler batches of one event kind never overlap: every handler that
\* is queued or running belongs to the newest batch, and the listener waits
\* only after cancelling the scope of that batch.
C4_BatchesNeverOverlap ==
    /\ \A t \in tasks : t.b = batch
    /\ gpc = "wait" => ctxDone

C4_Witness ==
    /\ batch >= 2
    /\ aliveAtCancel > 0
    /\ \E t \in tasks : t.st = "running" /\ t.b = batch

(***************************************************************************)
(* Write-cache flush pipeline                                              *)
(***************************************************************************)
\* lastKey of flushDB: set to the empty key on entry and never assigned.
lastKey == 0

\* Cursor.Seek: the first key of the keyed store not below key.
Seek(key) == IF key < 1 THEN 1 ELSE key

\* The address flushWorker adds to c.flushed and flushObject writes under:
\* the object's own address, which is the key it is stored under unless the
\* key is damaged (then it is some address, 0, that no entry is stored under).
AddressOf(e) == IF quality[e] = "badkey" THEN 0 ELSE e

\* The object was written durably: Blob Store Put and Index Put succeeded.
DurablyWritten(a) == a \in blob /\ a \in index

\* The scan of flushDB inside db.View: from key k on, the keys not in
\* c.flushed, until the batch holds flushBatchSize keys.
RECURSIVE Scan(_, _)
Scan(k, acc) ==
    IF k > NSmall \/ Len(acc) >= FlushBatchSize THEN acc
    ELSE Scan(k + 1, IF k \in flushed THEN acc ELSE Append(acc, k))

\* Outcomes of flushObject: both Puts succeed, blobstor.Put fails, or
\* metabase.Put fails after blobstor.Put succeeded.
PutOutcomes == {"ok", "blobFail", "indexFail"}

\* The mode lock: read-held by flushDB from its read-only check until the
\* batch is handed off, by flushBigObjects during one iteration of the
\* file tree, and by Flush until it returns.
RLockedByFlushOnly == dpc = "run"
RLocked == fpc = "send" \/ epc = "iter" \/ dpc = "run"

\* The check of Flush before it drains.
MustBeReadOnlyUnchecked == FALSE
MustBeReadOnly == ~readOnly

\* What the drain does with an entry it cannot read or decode.
OnBadEntryAlwaysSkip(ignore) == "skip"
OnBadEntry(ignore) == IF ignore THEN "skip" ELSE "abort"

\* fsTree.Iterate on an error returned by the handler: with IgnoreErrors it
\* goes on to the next entry, otherwise it returns the error.
IterateStops(ignore) == ~ignore

\* flushWorker adds the address to c.flushed after flushObject returned.
MarksFlushedAlways(out) == TRUE
MarksFlushed(out) == out = "ok"

\* The order in which flush visits the entries: file tree, then keyed store.
DrainOrder == [i \in 1..(NBig + NSmall) |-> IF i <= NBig THEN NSmall + i ELSE i - NBig]

InitWC ==
    /\ quality \in [Entries -> {"good", "corrupt", "badkey", "unreadable"}]
    /\ \A e \in Small : quality[e] # "unreadable"
    /\ \A e \in Big : quality[e] # "badkey"
    /\ Cardinality({e \in Entries : quality[e] # "good"}) <= MaxDamaged
    /\ compressFlags \in SUBSET Big
    /\ readOnly = FALSE
    /\ closed = FALSE
    /\ flushed = {}
    /\ blob = {}
    /\ index = {}
    /\ fpc = "timer"
    /\ m = <<>>
    /\ fi = 0
    /\ wpc = [w \in Workers |-> "recv"]
    /\ obj = [w \in Workers |-> 0]
    /\ epc = "timer"
    /\ epos = 0
    /\ dpc = "idle"
    /\ dpos = 0
    /\ ignoreErrors = FALSE
    /\ dres = NoError
    /\ dCalledRO = FALSE
    /\ drainPut = {}
    /\ rewritten = FALSE
    /\ rebatched = FALSE
    /\ tickRead = {}
    /\ ParkedInhume
    /\ ParkedGC
    /\ ParkedShard
    /\ ParkedIDW

\* Switching the cache mode takes the mode lock for writing.
SetMode ==
    /\ ~RLocked
    /\ readOnly' = ~readOnly
    /\ UNCHANGED <<quality, tickRead, compressFlags, closed, flushed, blob, index,
                   fpc, m, fi, wpc, obj, epc, epos,
                   dpc, dpos, ignoreErrors, dres, dCalledRO, drainPut,
                   rewritten, rebatched>>
    /\ UNCHANGED <<inhVars, gcVars, shVars, idwVars>>

\* Shutdown: c.closeCh is closed.
Close ==
    /\ ~closed
    /\ closed' = TRUE
    /\ UNCHANGED <<quality, tickRead, compressFlags, readOnly, flushed, blob, index,
                   fpc, m, fi, wpc, obj, epc, epos,
                   dpc, dpos, ignoreErrors, dres, dCalledRO, drainPut,
                   rewritten, rebatched>>
    /\ UNCHANGED <<inhVars, gcVars, shVars, idwVars>>

---------------------------------------------------------------------------
\* runFlushLoop's timer task: tt.C fires and flushDB starts.
FlushTimer ==
    /\ fpc = "timer"
    /\ fpc' = "loop"
    /\ m' = <<>>
    /\ fi' = 0
    /\ tickRead' = {}
    /\ UNCHANGED <<quality, compressFlags, readOnly, closed, flushed, blob, index,
                   wpc, obj, epc, epos,
                   dpc, dpos, ignoreErrors, dres, dCalledRO, drainPut,
                   rewritten, rebatched>>
    /\ UNCHANGED <<inhVars, gcVars, shVars, idwVars>>

\* The timer task, or flushDB at the top of its loop, sees c.closeCh closed.
FlushLoopExit ==
    /\ fpc \in {"timer", "loop"}
    /\ closed
    /\ fpc' = "exited"
    /\ UNCHANGED <<quality, tickRead, compressFlags, readOnly, closed, flushed, blob, index,
                   m, fi, wpc, obj, epc, epos,
                   dpc, dpos, ignoreErrors, dres, dCalledRO, drainPut,
                   rewritten, rebatched>>
    /\ UNCHANGED <<inhVars, gcVars, shVars, idwVars>>

\* flushDB in read-only mode: unlock, sleep, continue.
FlushDBSleep ==
    /\ fpc = "loop"
    /\ ~closed
    /\ readOnly
    /\ UNCHANGED wcVars
    /\ UNCHANGED <<inhVars, gcVars, shVars, idwVars>>

\* One scan of flushDB: the batch is read under the mode read lock; an
\* empty batch ends flushDB.
FlushDBScan ==
    /\ fpc = "loop"
    /\ ~closed
    /\ ~readOnly
    /\ LET batch0 == Scan(Seek(lastKey), <<>>) IN
         /\ m' = batch0
         /\ IF Len(batch0) = 0
              THEN fpc' = "timer" /\ fi' = 0 /\ tickRead' = {}
              ELSE fpc' = "send" /\ fi' = 1
                   /\ tickRead' = tickRead \cup {m[i] : i \in DOMAIN m}
         /\ rebatched' = (rebatched \/ \E i \in DOMAIN batch0 :
                             quality[batch0[i]] = "good" /\ DurablyWritten(batch0[i]))
    /\ UNCHANGED <<quality, compressFlags, readOnly, closed, flushed, blob, index,
                   wpc, obj, epc, epos,
                   dpc, dpos, ignoreErrors, dres, dCalledRO, drainPut,
                   rewritten>>
    /\ UNCHANGED <<inhVars, gcVars, shVars, idwVars>>

\* flushDB moves on to m[i+1], or unlocks after the last item of the batch.
FlushDBAdvance ==
    IF fi = Len(m)
      THEN fpc' = "loop" /\ fi' = 0
      ELSE fpc' = "send" /\ fi' = fi + 1

\* obj.Unmarshal(m[i].data) fails: the item is skipped.
FlushDBSkip ==
    /\ fpc = "send"
    /\ quality[m[fi]] = "corrupt"
    /\ FlushDBAdvance
    /\ UNCHANGED <<quality, tickRead, compressFlags, readOnly, closed, flushed, blob, index,
                   m, wpc, obj, epc, epos,
                   dpc, dpos, ignoreErrors, dres, dCalledRO, drainPut,
                   rewritten, rebatched>>
    /\ UNCHANGED <<inhVars, gcVars, shVars, idwVars>>

\* c.flushCh <- obj meets a worker's receive.
HandOff ==
    /\ fpc = "send"
    /\ quality[m[fi]] # "corrupt"
    /\ \E w \in Workers :
         /\ wpc[w] = "recv"
         /\ wpc' = [wpc EXCEPT ![w] = "flush"]
         /\ obj' = [obj EXCEPT ![w] = m[fi]]
    /\ FlushDBAdvance
    /\ UNCHANGED <<quality, tickRead, compressFlags, readOnly, closed, flushed, blob, index,
                   m, epc, epos,
                   dpc, dpos, ignoreErrors, dres, dCalledRO, drainPut,
                   rewritten, rebatched>>
    /\ UNCHANGED <<inhVars, gcVars, shVars, idwVars>>

\* flushDB's select takes <-c.closeCh instead of the send: unlock, return.
FlushDBSendClosed ==
    /\ fpc = "send"
    /\ quality[m[fi]] # "corrupt"
    /\ closed
    /\ fpc' = "exited"
    /\ UNCHANGED <<quality, tickRead, compressFlags, readOnly, closed, flushed, blob, index,
                   m, fi, wpc, obj, epc, epos,
                   dpc, dpos, ignoreErrors, dres, dCalledRO, drainPut,
                   rewritten, rebatched>>
    /\ UNCHANGED <<inhVars, gcVars, shVars, idwVars>>

---------------------------------------------------------------------------
\* flushWorker: flushObject on the received object, then c.flushed.Add.
WorkerFlush ==
    /\ \E w \in Workers, out \in PutOutcomes :
         LET a == AddressOf(obj[w]) IN
           /\ wpc[w] = "flush"
           /\ blob' = IF out # "blobFail" THEN blob \cup {a} ELSE blob
           /\ index' = IF out = "ok" THEN index \cup {a} ELSE index
           /\ flushed' = IF MarksFlushed(out) THEN flushed \cup {a} ELSE flushed
           /\ rewritten' = (rewritten \/ (out # "blobFail" /\ a # 0 /\ DurablyWritten(a)))
           /\ wpc' = [wpc EXCEPT ![w] = "recv"]
           /\ obj' = [obj EXCEPT ![w] = 0]
    /\ UNCHANGED <<quality, tickRead, compressFlags, readOnly, closed,
                   fpc, m, fi, epc, epos,
                   dpc, dpos, ignoreErrors, dres, dCalledRO, drainPut,
                   rebatched>>
    /\ UNCHANGED <<inhVars, gcVars, shVars, idwVars>>

\* flushWorker's select takes <-c.closeCh.
WorkerExit ==
    /\ closed
    /\ \E w \in Workers :
         /\ wpc[w] = "recv"
         /\ wpc' = [wpc EXCEPT ![w] = "exited"]
    /\ UNCHANGED <<quality, tickRead, compressFlags, readOnly, closed, flushed, blob, index,
                   fpc, m, fi, obj, epc, epos,
                   dpc, dpos, ignoreErrors, dres, dCalledRO, drainPut,
                   rewritten, rebatched>>
    /\ UNCHANGED <<inhVars, gcVars, shVars, idwVars>>

---------------------------------------------------------------------------
\* flushBigObjects: tick.C fires in read-only mode: unlock, wait again.
EvictReadOnly ==
    /\ epc = "timer"
    /\ readOnly
    /\ UNCHANGED wcVars
    /\ UNCHANGED <<inhVars, gcVars, shVars, idwVars>>

\* flushBigObjects: tick.C fires, the mode read lock is taken and the
\* iteration of the file tree starts.
EvictTick ==
    /\ epc = "timer"
    /\ ~readOnly
    /\ IF NBig = 0
         THEN UNCHANGED <<epc, epos>>
         ELSE epc' = "iter" /\ epos' = NSmall + 1
    /\ UNCHANGED <<quality, tickRead, compressFlags, readOnly, closed, flushed, blob, index,
                   fpc, m, fi, wpc, obj,
                   dpc, dpos, ignoreErrors, dres, dCalledRO, drainPut,
                   rewritten, rebatched>>
    /\ UNCHANGED <<inhVars, gcVars, shVars, idwVars>>

\* The lazy handler of flushBigObjects on entry epos: a flushed entry is
\* skipped, an unreadable one and a failed blobstor.Put are logged, and a
\* written one is marked flushed and loses its compression flag.
EvictEntry ==
    /\ epc = "iter"
    /\ \E putOk \in BOOLEAN :
         CASE epos \in flushed \/ quality[epos] = "unreadable" ->
                /\ putOk
                /\ UNCHANGED <<compressFlags, flushed, blob, rewritten, rebatched>>
           [] epos \notin flushed /\ quality[epos] # "unreadable" /\ ~putOk ->
                UNCHANGED <<compressFlags, flushed, blob, rewritten, rebatched>>
           [] OTHER ->
                /\ blob' = blob \cup {epos}
                /\ compressFlags' = compressFlags \ {epos}
                /\ flushed' = flushed \cup {epos}
                /\ rewritten' = (rewritten \/ DurablyWritten(epos))
                /\ rebatched' = (rebatched \/ DurablyWritten(epos))
    /\ IF epos = NSmall + NBig
         THEN epc' = "timer" /\ epos' = 0
         ELSE epc' = "iter" /\ epos' = epos + 1
    /\ UNCHANGED <<quality, tickRead, readOnly, closed, index,
                   fpc, m, fi, wpc, obj,
                   dpc, dpos, ignoreErrors, dres, dCalledRO, drainPut>>
    /\ UNCHANGED <<inhVars, gcVars, shVars, idwVars>>

\* flushBigObjects' select takes <-c.closeCh.
EvictExit ==
    /\ epc = "timer"
    /\ closed
    /\ epc' = "exited"
    /\ UNCHANGED <<quality, tickRead, compressFlags, readOnly, closed, flushed, blob, index,
                   fpc, m, fi, wpc, obj, epos,
                   dpc, dpos, ignoreErrors, dres, dCalledRO, drainPut,
                   rewritten, rebatched>>
    /\ UNCHANGED <<inhVars, gcVars, shVars, idwVars>>

---------------------------------------------------------------------------
\* Flush(ignoreErrors) is called: the mode check, and the start of flush.
FlushCall ==
    /\ dpc \in {"idle", "done"}
    /\ \E ignore \in BOOLEAN : ignoreErrors' = ignore
    /\ dCalledRO' = readOnly
    /\ drainPut' = {}
    /\ IF MustBeReadOnly
         THEN /\ dpc' = "done" /\ dpos' = 0
              /\ dres' = [kind |-> "mustBeReadOnly", e |-> 0]
         ELSE IF NBig + NSmall = 0
                THEN /\ dpc' = "done" /\ dpos' = 0
                     /\ dres' = [kind |-> "nil", e |-> 0]
                ELSE /\ dpc' = "run" /\ dpos' = 1
                     /\ dres' = NoError
    /\ UNCHANGED <<quality, tickRead, compressFlags, readOnly, closed, flushed, blob, index,
                   fpc, m, fi, wpc, obj, epc, epos,
                   rewritten, rebatched>>
    /\ UNCHANGED <<inhVars, gcVars, shVars, idwVars>>

\* The drain goes on to the next entry, or returns nil after the last one.
DrainNext ==
    IF dpos = NBig + NSmall
      THEN dpc' = "done" /\ dres' = [kind |-> "nil", e |-> 0] /\ dpos' = dpos
      ELSE dpc' = "run" /\ dres' = dres /\ dpos' = dpos + 1

\* The drain returns the error of entry e.
DrainAbort(kind, e) ==
    dpc' = "done" /\ dres' = [kind |-> kind, e |-> e] /\ dpos' = dpos

\* flushObject called by the drain on entry e, with outcome out.
DrainPut(e, out) ==
    /\ blob' = IF out # "blobFail" THEN blob \cup {e} ELSE blob
    /\ index' = IF out = "ok" THEN index \cup {e} ELSE index
    /\ drainPut' = drainPut \cup {e}
    /\ rewritten' = (rewritten \/ (out # "blobFail" /\ DurablyWritten(e)))

\* The lazy handler of flush on an entry of the file tree.
DrainFSTree ==
    /\ dpc = "run"
    /\ dpos <= NBig
    /\ LET e == DrainOrder[dpos] IN
         \E out \in PutOutcomes :
           CASE e \in flushed ->
                  /\ out = "ok"
                  /\ DrainNext
                  /\ UNCHANGED <<blob, index, drainPut, rewritten>>
             [] e \notin flushed /\ quality[e] \in {"unreadable", "corrupt"} ->
                  /\ out = "ok"
                  /\ IF OnBadEntry(ignoreErrors) = "skip"
                       THEN DrainNext
                       ELSE DrainAbort(IF quality[e] = "unreadable" THEN "read" ELSE "unmarshal", e)
                  /\ UNCHANGED <<blob, index, drainPut, rewritten>>
             [] OTHER ->
                  /\ DrainPut(e, out)
                  /\ IF out # "ok" /\ IterateStops(ignoreErrors)
                       THEN DrainAbort("put", e)
                       ELSE DrainNext
    /\ UNCHANGED <<quality, tickRead, compressFlags, readOnly, closed, flushed,
                   fpc, m, fi, wpc, obj, epc, epos,
                   ignoreErrors, dCalledRO, rebatched>>
    /\ UNCHANGED <<inhVars, gcVars, shVars, idwVars>>

\* The cursor loop of flush on a key of the keyed store.
DrainDB ==
    /\ dpc = "run"
    /\ dpos > NBig
    /\ LET e == DrainOrder[dpos] IN
         \E out \in PutOutcomes :
           CASE e \in flushed ->
                  /\ out = "ok"
                  /\ DrainNext
                  /\ UNCHANGED <<blob, index, drainPut, rewritten>>
             [] e \notin flushed /\ quality[e] \in {"badkey", "corrupt"} ->
                  /\ out = "ok"
                  /\ IF OnBadEntry(ignoreErrors) = "skip"
                       THEN DrainNext
                       ELSE DrainAbort(IF quality[e] = "badkey" THEN "decode" ELSE "unmarshal", e)
                  /\ UNCHANGED <<blob, index, drainPut, rewritten>>
             [] OTHER ->
                  /\ DrainPut(e, out)
                  /\ IF out # "ok"
                       THEN DrainAbort("put", e)
                       ELSE DrainNext
    /\ UNCHANGED <<quality, tickRead, compressFlags, readOnly, closed, flushed,
                   fpc, m, fi, wpc, obj, epc, epos,
                   ignoreErrors, dCalledRO, rebatched>>
    /\ UNCHANGED <<inhVars, gcVars, shVars, idwVars>>

NextWC ==
    \/ SetMode
    \/ Close
    \/ FlushTimer
    \/ FlushLoopExit
    \/ FlushDBSleep
    \/ FlushDBScan
    \/ FlushDBSkip
    \/ HandOff
    \/ FlushDBSendClosed
    \/ WorkerFlush
    \/ WorkerExit
    \/ EvictReadOnly
    \/ EvictTick
    \/ EvictEntry
    \/ EvictExit
    \/ FlushCall
    \/ DrainFSTree
    \/ DrainDB

SpecWC == InitWC /\ [][NextWC]_vars

\* Background flushing of a cache that stays read-write and is not shut
\* down: the mode is not switched, c.closeCh stays open, Flush is not called.
NextFlushRW ==
    \/ FlushTimer
    \/ FlushDBScan
    \/ FlushDBSkip
    \/ HandOff
    \/ WorkerFlush
    \/ EvictTick
    \/ EvictEntry

\* A flushWorker step in which flushObject returned nil.
WorkerFlushOk ==
    /\ WorkerFlush
    /\ \E w \in Workers : wpc[w] = "flush" /\ wpc'[w] = "recv"
                           /\ AddressOf(obj[w]) \in flushed'

\* The flush timer fires, flushDB and the workers are scheduled, and the
\* Puts of an object do not fail for ever.
FairSpecFlushRW ==
    /\ InitWC
    /\ [][NextFlushRW]_vars
    /\ WF_vars(FlushTimer)
    /\ WF_vars(FlushDBScan)
    /\ WF_vars(FlushDBSkip)
    /\ WF_vars(HandOff)
    /\ WF_vars(WorkerFlush)
    /\ SF_vars(WorkerFlushOk)

(***************************************************************************)
(* Properties of the write-cache flush pipeline                            *)
(***************************************************************************)
\* C2: an object is written durably exactly once: after its first
\* successful durable write it is never written again, and it enters no
\* later flush batch.
C2_ExactlyOnce == ~rewritten /\ ~rebatched

\* c.flushed.Add(addr, true) of flushWorker, as opposed to
\* c.flushed.Add(sAddr, false) of flushBigObjects.
FlushedByWorker(a) == a \notin Big

DrainPos(e) == IF e \in Big THEN e - NSmall ELSE e + NBig

\* A Flush(ignoreErrors=false) call on a read-only cache has returned, and
\* no Put failed in it.
DrainReturned == dpc = "done" /\ dCalledRO /\ ~ignoreErrors /\ dres.kind # "put"

\* k is the one damaged entry of the cache.
OnlyDamaged(k) == quality[k] # "good" /\ \A e \in Entries \ {k} : quality[e] = "good"

\* The drain stopped at k: it returned k's error, every entry before k is
\* flushed or was written by the drain, and no entry after k was written.
StoppedAt(k) ==
    /\ dres.e = k
    /\ dres.kind \in {"read", "unmarshal", "decode"}
    /\ \A e \in Entries :
         /\ DrainPos(e) < DrainPos(k) => (e \in flushed \/ e \in drainPut)
         /\ DrainPos(e) > DrainPos(k) => e \notin drainPut

\* C8 as stated: with one unreadable or corrupt entry k and no Put failure,
\* Flush(ignoreErrors=false) writes the unflushed entries before k, none
\* after k, and returns k's error.
C8_DrainStopsAtDamaged ==
    DrainReturned => \A k \in Entries : OnlyDamaged(k) => StoppedAt(k)

\* C8 as amended: the same for an entry k that is not in the FlushedSet.
C8_DrainStopsAtUnflushedDamaged ==
    DrainReturned =>
      \A k \in Entries : (OnlyDamaged(k) /\ k \notin flushed) => StoppedAt(k)

C8_Witness ==
    /\ DrainReturned
    /\ OnlyDamaged(1)
    /\ StoppedAt(1)
    /\ Big \subseteq drainPut

\* C9: Flush(ignoreErrors=true) on a read-only cache visits every entry and
\* returns no error, whatever entry cannot be read, decoded or written.
C9_IgnoreErrorsDrainsAll ==
    (dpc = "done" /\ dCalledRO /\ ignoreErrors) =>
      (dres.kind = "nil" /\ dpos = NBig + NSmall)

\* C10: Flush called while the cache is not read-only returns the
\* must-be-read-only error at once and calls flushObject on no entry.
C10_FlushNeedsReadOnly ==
    (dpc # "idle" /\ ~dCalledRO) =>
      (dpc = "done" /\ dres.kind = "mustBeReadOnly" /\ drainPut = {})

C10_Witness ==
    /\ dpc = "done" /\ ~dCalledRO
    /\ dres.kind = "mustBeReadOnly"
    /\ flushed # {}

(***************************************************************************)
(* Properties of gc.listenEvents: dispatch and the wait-barrier            *)
(***************************************************************************)
\* Every submission of the batch was made, and each accepted one started.
Dispatched ==
    /\ batch >= 1
    /\ gpc # "submit"
    /\ \A t \in tasks : t.st = "running"

\* C15: in a batch in which the pool rejects no submission, no handler is
\* invoked twice, and once the batch is dispatched and its functions are
\* started, each handler of the group was invoked exactly once.
C15_EachHandlerOnce ==
    rejected = {} =>
      \A i \in 1..NHandlers :
        /\ invoked[i] <= 1
        /\ Dispatched => invoked[i] = 1

\* Submissions of the running range loop still to be made.
ToSubmit == IF gpc = "submit" THEN NHandlers - hi + 1 ELSE 0

\* C16: the wait-barrier counts the accepted handlers that have not
\* returned (and the submissions the loop has still to make), whatever
\* submissions are rejected, so it is never negative; the listener's wait
\* always ends, and every received event is dispatched.
C16_BarrierDrains ==
    /\ [](prevGroup = Cardinality(tasks) + ToSubmit)
    /\ [](prevGroup >= 0)
    /\ (gpc = "wait") ~> (gpc = "recv")

C16_Witness ==
    /\ gpc = "wait"
    /\ prevGroup = 0
    /\ aliveAtCancel > 0
    /\ rejected # {}

(***************************************************************************)
(* Shard GC: collectExpiredObjects, tickRemover, removeGarbage             *)
(***************************************************************************)
ObjectTypes == {"regular", "tombstone"}

\* metaBase.IterateExpired: the first address from k on that the Index
\* holds as expired, NObjects + 1 when there is none.
RECURSIVE NextExpired(_)
NextExpired(k) ==
    IF k > NObjects THEN NObjects + 1
    ELSE IF k \in stored /\ expiry[k] # "none" THEN k
    ELSE NextExpired(k + 1)

\* The callback's test expiredObject.Type() != object.TypeTombstone.
CollectsAnyType(type) == TRUE
Collects(type) == type # "tombstone"

\* The check of ctx.Done() between the enumeration and metaBase.Inhume.
CheckAfterSkipped == FALSE
CheckAfter == ctx

\* g.WithGCMark() of a grave.
WithAnyMark(g) == g # "none"
WithGCMark(g) == g = "gc"

Range(seq) == {seq[k] : k \in DOMAIN seq}

InitShard ==
    /\ expiry \in [Addrs -> ObjectTypes \cup {"none"}]
    /\ stored = Addrs
    /\ graveyard \in [Addrs -> {"none", "tomb"}]
    /\ cpc = "idle"
    /\ ctx = FALSE
    /\ cpos = 0
    /\ expired = <<>>
    /\ enumerated = <<>>
    /\ inhumeCalls = <<>>
    /\ cancelledAt = NotCancelled
    /\ rpc = "timer"
    /\ shutdown = FALSE
    /\ lastDelete = NoDelete
    /\ ParkedInhume
    /\ ParkedGC
    /\ ParkedWC
    /\ ParkedIDW

\* A pool worker calls collectExpiredObjects(ctx, e) with a fresh scope.
CollectStart ==
    /\ cpc \in {"idle", "done"}
    /\ cpc' = "iter"
    /\ ctx' = FALSE
    /\ cpos' = NextExpired(1)
    /\ expired' = <<>>
    /\ enumerated' = <<>>
    /\ inhumeCalls' = <<>>
    /\ cancelledAt' = NotCancelled
    /\ UNCHANGED <<expiry, stored, graveyard, rpc, shutdown, lastDelete>>
    /\ UNCHANGED <<inhVars, gcVars, wcVars, idwVars>>

\* The listener calls v.cancelFunc() while the handler runs.
Cancel ==
    /\ cpc \in {"iter", "check", "inhume"}
    /\ ~ctx
    /\ ctx' = TRUE
    /\ cancelledAt' = [pc |-> cpc, len |-> Len(expired)]
    /\ UNCHANGED <<expiry, stored, graveyard, cpc, cpos, expired, enumerated,
                   inhumeCalls, rpc, shutdown, lastDelete>>
    /\ UNCHANGED <<inhVars, gcVars, wcVars, idwVars>>

\* IterateExpired returned err: the tests of err and of len(expired).
AfterIterate(err) ==
    cpc' = IF err \/ Len(expired) = 0 THEN "done" ELSE "check"

\* IterateExpired calls the callback on the expired object at cpos: on a
\* cancelled scope the callback returns ErrInterruptIterator, which ends the
\* enumeration; otherwise a non-tombstone object is appended to expired.
CollectItem ==
    /\ cpc = "iter"
    /\ cpos <= NObjects
    /\ IF ctx
         THEN /\ \E err \in BOOLEAN : AfterIterate(err)
              /\ UNCHANGED <<cpos, expired, enumerated>>
         ELSE /\ enumerated' = Append(enumerated, cpos)
              /\ expired' = IF Collects(expiry[cpos])
                              THEN Append(expired, cpos) ELSE expired
              /\ cpos' = NextExpired(cpos + 1)
              /\ UNCHANGED cpc
    /\ UNCHANGED <<expiry, stored, graveyard, ctx, inhumeCalls, cancelledAt,
                   rpc, shutdown, lastDelete>>
    /\ UNCHANGED <<inhVars, gcVars, wcVars, idwVars>>

\* IterateExpired returns after the last expired object, with or without
\* an error of its own.
CollectIterateEnd ==
    /\ cpc = "iter"
    /\ cpos > NObjects
    /\ \E err \in BOOLEAN : AfterIterate(err)
    /\ UNCHANGED <<expiry, stored, graveyard, ctx, cpos, expired, enumerated,
                   inhumeCalls, cancelledAt, rpc, shutdown, lastDelete>>
    /\ UNCHANGED <<inhVars, gcVars, wcVars, idwVars>>

\* The select on ctx.Done() after the enumeration.
CollectCheck ==
    /\ cpc = "check"
    /\ cpc' = IF CheckAfter THEN "done" ELSE "inhume"
    /\ UNCHANGED <<expiry, stored, graveyard, ctx, cpos, expired, enumerated,
                   inhumeCalls, cancelledAt, rpc, shutdown, lastDelete>>
    /\ UNCHANGED <<inhVars, gcVars, wcVars, idwVars>>

\* s.metaBase.Inhume(WithAddresses(expired...).WithGCMark()): on success
\* every address gets a grave with the GC mark.
CollectInhume ==
    /\ cpc = "inhume"
    /\ inhumeCalls' = Append(inhumeCalls,
                             [addrs |-> Range(expired), gcMark |-> TRUE, tombstone |-> FALSE])
    /\ \E ok \in BOOLEAN :
         graveyard' = IF ok
                        THEN [a \in Addrs |-> IF a \in Range(expired) THEN "gc"
                                              ELSE graveyard[a]]
                        ELSE graveyard
    /\ cpc' = "done"
    /\ UNCHANGED <<expiry, stored, ctx, cpos, expired, enumerated, cancelledAt,
                   rpc, shutdown, lastDelete>>
    /\ UNCHANGED <<inhVars, gcVars, wcVars, idwVars>>

\* tickRemover: <-timer.C.
TickRemover ==
    /\ rpc = "timer"
    /\ rpc' = "remove"
    /\ UNCHANGED <<expiry, stored, graveyard, cpc, ctx, cpos, expired, enumerated,
                   inhumeCalls, cancelledAt, shutdown, lastDelete>>
    /\ UNCHANGED <<inhVars, gcVars, wcVars, idwVars>>

\* gc.remover(), that is removeGarbage, then timer.Reset: every grave with
\* the GC mark is appended to buf, and a non-empty buf is passed to Delete,
\* which on success removes the objects and their graves.
RemoveGarbage ==
    /\ rpc = "remove"
    /\ \E iterErr \in BOOLEAN, delOk \in BOOLEAN :
         LET buf == {a \in Addrs : WithGCMark(graveyard[a])}
             seen == [ran |-> TRUE, iterErr |-> iterErr,
                      gc |-> {a \in Addrs : graveyard[a] = "gc"},
                      tomb |-> {a \in Addrs : graveyard[a] = "tomb"},
                      called |-> FALSE, addrs |-> {}]
         IN
           IF iterErr \/ buf = {}
             THEN /\ delOk
                  /\ lastDelete' = seen
                  /\ UNCHANGED <<stored, graveyard>>
             ELSE /\ lastDelete' = [seen EXCEPT !.called = TRUE, !.addrs = buf]
                  /\ stored' = IF delOk THEN stored \ buf ELSE stored
                  /\ graveyard' = IF delOk
                                    THEN [a \in Addrs |-> IF a \in buf THEN "none"
                                                          ELSE graveyard[a]]
                                    ELSE graveyard
    /\ rpc' = "timer"
    /\ UNCHANGED <<expiry, cpc, ctx, cpos, expired, enumerated,
                   inhumeCalls, cancelledAt, shutdown>>
    /\ UNCHANGED <<inhVars, gcVars, wcVars, idwVars>>

\* The shard is closed: the shutdown signal is raised.
SignalShutdown ==
    /\ ~shutdown
    /\ shutdown' = TRUE
    /\ UNCHANGED <<expiry, stored, graveyard, cpc, ctx, cpos, expired, enumerated,
                   inhumeCalls, cancelledAt, rpc, lastDelete>>
    /\ UNCHANGED <<inhVars, gcVars, wcVars, idwVars>>

NextShard ==
    \/ CollectStart
    \/ Cancel
    \/ CollectItem
    \/ CollectIterateEnd
    \/ CollectCheck
    \/ CollectInhume
    \/ TickRemover
    \/ RemoveGarbage
    \/ SignalShutdown

SpecShard == InitShard /\ [][NextShard]_vars

\* The timer of tickRemover keeps firing, and a running handler or
\* removeGarbage call goes on.
FairSpecShard ==
    /\ SpecShard
    /\ WF_vars(TickRemover)
    /\ WF_vars(RemoveGarbage)
    /\ WF_vars(CollectItem \/ CollectIterateEnd \/ CollectCheck \/ CollectInhume)

(***************************************************************************)
(* Properties of the shard GC                                              *)
(***************************************************************************)
\* The non-tombstone objects IterateExpired enumerated in this run.
EnumeratedNonTombstones == {a \in Range(enumerated) : expiry[a] # "tombstone"}

\* C11: collectExpiredObjects calls Index Inhume at most once per run, never
\* with an empty set, always with the GC mark and no tombstone, and the
\* addresses it passes are exactly the non-tombstone objects that the Index
\* enumerated as expired: no expired tombstone is among them.
C11_CollectExcludesTombstones ==
    /\ Len(inhumeCalls) <= 1
    /\ \A k \in DOMAIN inhumeCalls :
         /\ inhumeCalls[k].addrs = EnumeratedNonTombstones
         /\ inhumeCalls[k].addrs # {}
         /\ inhumeCalls[k].gcMark /\ ~inhumeCalls[k].tombstone
    /\ (cpc = "done" /\ EnumeratedNonTombstones = {}) => inhumeCalls = <<>>

C11_Witness ==
    /\ cpc = "done"
    /\ Len(inhumeCalls) = 1
    /\ Cardinality(inhumeCalls[1].addrs) >= 2
    /\ \E a \in Range(enumerated) : expiry[a] = "tombstone"
    /\ \E a \in inhumeCalls[1].addrs : graveyard[a] = "gc"

\* C12, for the GC physical-remover timer task: once the shutdown signal is
\* raised the task eventually exits.
C12_RemoverExits == shutdown ~> (rpc = "exited")

\* C17: removeGarbage never passes more than rmBatchSize addresses to Delete.
C17_DeleteBatchBounded ==
    lastDelete.called => Cardinality(lastDelete.addrs) <= RmBatchSize

\* C18: removeGarbage passes to Delete only addresses whose grave carries
\* the GC mark, never one with a tombstone-attributed grave, and it calls
\* Delete neither when it found no such grave nor when the enumeration of
\* the graveyard failed.
C18_DeletesOnlyGCMarked ==
    /\ lastDelete.called =>
         /\ lastDelete.addrs \subseteq lastDelete.gc
         /\ lastDelete.addrs \cap lastDelete.tomb = {}
    /\ (lastDelete.ran /\ (lastDelete.gc = {} \/ lastDelete.iterErr)) =>
         ~lastDelete.called
    /\ \A a \in Addrs : graveyard[a] = "tomb" => a \in stored

C18_Witness ==
    /\ lastDelete.called
    /\ lastDelete.tomb # {}
    /\ \E a \in lastDelete.addrs : a \notin stored

\* C19: a run whose scope was cancelled during the enumeration, or before
\* the check that follows it, calls Index Inhume not at all, and appends no
\* further object to its batch.
C19_CancelledRunMutatesNothing ==
    cancelledAt.pc \in {"iter", "check"} =>
      /\ inhumeCalls = <<>>
      /\ cpc # "inhume"
      /\ Len(expired) = cancelledAt.len

C19_Witness ==
    /\ cpc = "done"
    /\ cancelledAt.pc = "iter"
    /\ cancelledAt.len >= 1
    /\ cpos <= NObjects

(***************************************************************************)
(* Properties of flushDB's cursor                                          *)
(***************************************************************************)
\* C20: within one flushDB call no key is read into more than one batch:
\* the batch being handed off shares no key with the earlier batches of
\* the same call (a key handed to the workers twice in one call is a key
\* read into two of its batches).
C20_CursorAdvances ==
    fpc = "send" => {m[i] : i \in DOMAIN m} \cap tickRead = {}

(***************************************************************************)
(* Properties of the cache mode                                            *)
(***************************************************************************)
\* C22: the mode does not change while a batch of flushDB is being handed
\* off or an iteration of flushBigObjects is running, and in read-only mode
\* neither loop is at a hand-off or inside an iteration, which are the only
\* places where they pass an object on or write to the Blob Store.
C22_ModeStableDuringBatch ==
    /\ [][(fpc = "send" \/ epc = "iter") => readOnly' = readOnly]_vars
    /\ [](readOnly => (fpc # "send" /\ epc # "iter"))

C22_Witness ==
    /\ fpc = "send"
    /\ epc = "iter"
    /\ dCalledRO
    /\ ~readOnly

\* C23: while Flush is executing no flush worker finishes a flushObject
\* call, that is, writes to the Blob Store or the Index or adds to the
\* FlushedSet.
C23_NoWorkerWriteDuringDrain ==
    [][dpc = "run" => \A w \in Workers : wpc[w] = "flush" => wpc'[w] = "flush"]_vars

(***************************************************************************)
(* Progress of background flushing                                         *)
(***************************************************************************)
\* C21: in a cache that stays read-write and open, every entry of the keyed
\* store that deserializes is eventually in the FlushedSet, whatever other
\* entries are damaged, and every flushDB call ends.
C21_BadEntryNeverStopsFlushing ==
    /\ \A e \in Small : (quality[e] = "good") ~> (e \in flushed)
    /\ (fpc \in {"loop", "send"}) ~> (fpc = "timer")

(***************************************************************************)
(* uniqueIDWriter.WriteIDs                                                 *)
(***************************************************************************)
\* The lists a call can be made with.
Lists == UNION {[1..n -> IDs] : n \in 0..MaxList}

\* list[i].String(): the textual form of an ID, the key in w.written.
String(id) == <<"oid", id>>

\* append(list[:i], list[i+1:]...), with positions counted from 1.
Remove(l, i) == SubSeq(l, 1, i - 1) \o SubSeq(l, i + 1, Len(l))

\* The position examined after the one at i was removed: i--, then i++.
NextIndexNoDecrement(i) == i + 1
NextIndex(i) == i

\* The for loop of WriteIDs from position i on, on slice l and map keys w.
RECURSIVE Loop(_, _, _)
Loop(l, i, w) ==
    IF i > Len(l) THEN [list |-> l, written |-> w]
    ELSE IF String(l[i]) \notin w
           THEN Loop(l, i + 1, w \cup {String(l[i])})
           ELSE Loop(Remove(l, i), NextIndex(i), w)

\* A list as a number: the calls are interchangeable, so the lists of
\* calls 1, 2, ... are taken in non-decreasing order of this number.
RECURSIVE Code(_)
Code(l) == IF l = <<>> THEN 0 ELSE Head(l) + (NIDs + 1) * Code(Tail(l))

InitIDW ==
    /\ written = {}
    /\ mtx = 0
    /\ arg \in [Calls -> Lists]
    /\ \A c \in Calls : c < NCalls => Code(arg[c]) <= Code(arg[c + 1])
    /\ list = arg
    /\ upc = [c \in Calls |-> "call"]
    /\ lockOrder = <<>>
    /\ fwd = [c \in Calls |-> <<>>]
    /\ ParkedInhume
    /\ ParkedGC
    /\ ParkedWC
    /\ ParkedShard

\* w.mtx.Lock() of a call.
WriteIDsLock ==
    /\ mtx = 0
    /\ \E c \in Calls :
         /\ upc[c] = "call"
         /\ mtx' = c
         /\ upc' = [upc EXCEPT ![c] = "locked"]
         /\ lockOrder' = Append(lockOrder, c)
    /\ UNCHANGED <<written, arg, list, fwd>>
    /\ UNCHANGED <<inhVars, gcVars, wcVars, shVars>>

\* The for loop of the call holding w.mtx, and w.mtx.Unlock().
WriteIDsLoop ==
    /\ \E c \in Calls :
         LET r == Loop(list[c], 1, written) IN
           /\ upc[c] = "locked"
           /\ mtx = c
           /\ list' = [list EXCEPT ![c] = r.list]
           /\ written' = r.written
           /\ upc' = [upc EXCEPT ![c] = "unlocked"]
    /\ mtx' = 0
    /\ UNCHANGED <<arg, lockOrder, fwd>>
    /\ UNCHANGED <<inhVars, gcVars, wcVars, shVars>>

\* return w.writer.WriteIDs(list).
WriteIDsForward ==
    /\ \E c \in Calls :
         /\ upc[c] = "unlocked"
         /\ fwd' = [fwd EXCEPT ![c] = list[c]]
         /\ upc' = [upc EXCEPT ![c] = "done"]
    /\ UNCHANGED <<written, mtx, arg, list, lockOrder>>
    /\ UNCHANGED <<inhVars, gcVars, wcVars, shVars>>

NextIDW ==
    \/ WriteIDsLock
    \/ WriteIDsLoop
    \/ WriteIDsForward

SpecIDW == InitIDW /\ [][NextIDW]_vars

(***************************************************************************)
(* Properties of uniqueIDWriter                                            *)
(***************************************************************************)
\* The IDs in the lists of the calls that acquired w.mtx before call c.
EarlierIDs(c) ==
    UNION {Range(arg[lockOrder[k]]) :
             k \in {j \in DOMAIN lockOrder :
                      \E n \in DOMAIN lockOrder : lockOrder[n] = c /\ j < n}}

\* The IDs of l from position k on that are not in seen and not repeated,
\* in the order of l.
RECURSIVE KeptFrom(_, _, _)
KeptFrom(l, k, seen) ==
    IF k > Len(l) THEN <<>>
    ELSE IF l[k] \in seen THEN KeptFrom(l, k + 1, seen)
    ELSE <<l[k]>> \o KeptFrom(l, k + 1, seen \cup {l[k]})

\* How often id was forwarded to the wrapped writer.
Forwards(id) ==
    Cardinality({<<c, k>> \in Calls \X (1..MaxList) :
                   k \in DOMAIN fwd[c] /\ fwd[c][k] = id})

\* C24: a call forwards, in the order of its list, the first occurrence of
\* each ID of the list that no call locking before it had in its list; so
\* no ID is ever forwarded twice, and once every call has returned each ID
\* passed to some call was forwarded exactly once.
C24_EachIDForwardedOnce ==
    /\ \A c \in Calls :
         upc[c] = "done" => fwd[c] = KeptFrom(arg[c], 1, EarlierIDs(c))
    /\ \A id \in IDs : Forwards(id) <= 1
    /\ (\A c \in Calls : upc[c] = "done") =>
         \A id \in UNION {Range(arg[c]) : c \in Calls} : Forwards(id) = 1

C24_Witness ==
    /\ \A c \in Calls : upc[c] = "done"
    /\ lockOrder[1] = 2
    /\ arg[2] = <<2, 2>>
    /\ arg[1] = <<2, 1>>
    /\ fwd[1] = <<1>>

====
